---- MODULE Spec2Model ----
(***************************************************************************)
(* A model of the A/D converter driver of adc.cpp: the constructor, the    *)
(* blocking single read read_once, the averaged read read_oversampled and  *)
(* the diagnostic operator <<, together with the converter's registers     *)
(* ADCSRA, ADMUX and ADC.                                                  *)
(*                                                                         *)
(* Registers are 8-bit cells (ADC: 16-bit).  The only thing the peripheral *)
(* does on its own is to finish a conversion: it loads ADC and clears the  *)
(* start-conversion flag ADSC, which is what the loop on line 87 waits     *)
(* for.  A read-modify-write statement on a register (x |= m, x &= m) is   *)
(* a load followed by a store, so that two threads of control interleave   *)
(* between them; the constructor runs at start-up, before any other        *)
(* thread, and its statements are single steps.                            *)
(***************************************************************************)
EXTENDS Integers, Sequences, FiniteSets, TLC

\* ---------------------------------------------------------------- bounds
NumThreads == 2      \* threads of control that may call into the driver
MaxCalls == 2        \* top-level driver calls one thread makes in a run

Threads == 1..NumThreads

\* ------------------------------------------------- bit positions (avr/io.h)
ADEN == 7
ADSC == 6
ADPS0 == 0
ADPS1 == 1
ADPS2 == 2
REFS0 == 6
REFS1 == 7

Byte == 0..255

\* ------------------------------------------------------- 8-bit arithmetic
Pow2(i) == 2^i

Bit(x, i) == (x \div Pow2(i)) % 2

\* x & y on 8 bits
And8(x, y) ==
    LET b(i) == Bit(x, i) * Bit(y, i) * Pow2(i)
    IN  b(0) + b(1) + b(2) + b(3) + b(4) + b(5) + b(6) + b(7)

\* x | y on 8 bits
Or8(x, y) ==
    LET b(i) == (IF Bit(x, i) + Bit(y, i) > 0 THEN 1 ELSE 0) * Pow2(i)
    IN  b(0) + b(1) + b(2) + b(3) + b(4) + b(5) + b(6) + b(7)

\* ~x, truncated to the 8 bits of the register it is stored to
Not8(x) == 255 - x

\* --------------------------------------------------- the constructor's steps
\* line 48: ADCSRA |= 1<<ADEN
EnableADC(a) == Or8(a, Pow2(ADEN))

\* line 51: ADCSRA |= 1<<ADPS0
SetPrescaler0(a) == Or8(a, Pow2(ADPS0))

\* (the ~ forgotten)
ClearPrescaler1_NoNot(a) == And8(a, Pow2(ADPS1))

\* line 52: ADCSRA &= ~(1<<ADPS1)
ClearPrescaler1(a) == And8(a, Not8(Pow2(ADPS1)))

\* line 53: ADCSRA |= 1<<ADPS2
SetPrescaler2(a) == Or8(a, Pow2(ADPS2))

\* line 56: ADMUX |= 1<<REFS0
SetRef0(m) == Or8(m, Pow2(REFS0))

\* line 57: ADMUX &= ~(1<<REFS1)
ClearRef1(m) == And8(m, Not8(Pow2(REFS1)))

\* the whole constructor on each register
CtorADCSRA(a) == SetPrescaler2(ClearPrescaler1(SetPrescaler0(EnableADC(a))))
CtorADMUX(m) == ClearRef1(SetRef0(m))

\* ------------------------------------------------------ read_once's steps
\* (the mask forgotten)
MaskChannel_Unmasked(c) == c

\* line 79: ch &= 0b00000111
MaskChannel(c) == And8(c, 7)

\* line 82: ADMUX &= 0b11111000
ClearMux(m) == And8(m, 248)

\* (&= for |=)
SetMux_And(m, c) == And8(m, c)

\* line 83: ADMUX |= ch
SetMux(m, c) == Or8(m, c)

\* (= in place of |=)
StartConversion_Assign(a) == Pow2(ADSC)

\* line 86: ADCSRA |= 1<<ADSC
StartConversion(a) == Or8(a, Pow2(ADSC))

\* (the enable bit polled)
Converting_EnableBit(a) == And8(a, Pow2(ADEN)) # 0

\* (the wrong bit polled)
Converting_WrongBit(a) == And8(a, 32) # 0

\* line 87: the loop's condition, ADCSRA & 0b01000000
Converting(a) == And8(a, 64) # 0

\* ------------------------------------------------ read_oversampled's steps
\* (> for >=)
ClampSamples_Strict(s) == IF s > 64 THEN 60 ELSE s

\* (the cap set too high)
ClampSamples_Late(s) == IF s >= 128 THEN 60 ELSE s

\* lines 114-117: if(samples >= 64) samples = 60
ClampSamples(s) == IF s >= 64 THEN 60 ELSE s

\* (one iteration short)
MoreSamples_OneShort(s) == 1 < s

\* line 121: the loop's condition, i < samples with i == 0
MoreSamples(s) == 0 < s

\* (= for +=)
Accumulate_Overwrite(r, x) == x

\* line 123: result += ..., on a uint16_t
Accumulate(r, x) == (r + x) % 65536

\* (the division forgotten)
Average_Undivided(r, n) == r

\* line 127: result/temp_samples, for temp_samples # 0
Average(r, n) == r \div n

\* ------------------------------------------------------------ the state
VARIABLES
    ADCSRA,   \* the control and status register
    ADMUX,    \* the multiplexer register
    ADC,      \* the result register
    conv,     \* the peripheral: the conversion in flight and the one in ADC
    signal,   \* the analog input the peripheral converts
    cpc,      \* the constructor's position
    serial,   \* the lines written to the serial port
    lock,     \* the caller's mutual-exclusion lock: 0, or the thread holding it
    th,       \* each thread's position and the locals of the calls it is in
    gh        \* each thread's history, read by the properties only

vars == <<ADCSRA, ADMUX, ADC, conv, signal, cpc, serial, lock, th, gh>>

\* the operands of the << chain of lines 144-153, as positions 0..9
Operands == 0..9

\* a thread outside every call
T0 ==
    [pc |-> "idle", op |-> "none", calls |-> 0,
     ch |-> 0, ro_result |-> 0, tmp |-> 0,
     channel |-> 0, samples |-> 0, temp_samples |-> 0, os_result |-> 0,
     order |-> << >>, evald |-> {}, opval |-> [k \in Operands |-> 0], cur |-> 0,
     emitted |-> 0,
     ret |-> 0]

\* no history
G0 ==
    [fin |-> "none", argChannel |-> 0, argSamples |-> 0, mux0 |-> 0, csra0 |-> 0,
     idx0 |-> 0, ncall |-> 0, nconv |-> [k \in 0..7 |-> 0], sum |-> 0, last |-> 0, divZero |-> FALSE, serial0 |-> 0,
     roArg |-> 0, roMux0 |-> 0, gotChan |-> -1, startChan |-> -1,
     setWhileBusy |-> FALSE, disturbed |-> FALSE, overwritten |-> FALSE,
     again |-> FALSE, prev |-> [ret |-> 0, csra |-> 0, mux |-> 0, adc |-> 0]]

\* the positions inside read_once, and those after its line 83 stored the
\* channel and before its line 90 read the result
InReadOnce == {"r79", "r82", "r82w", "r83", "r83w", "r86", "r86w", "r87", "r90", "r92"}
AfterSelect == {"r86", "r86w", "r87", "r90"}

\* ------------------------------------------------------- the peripheral
Signals == {"max", "zero", "chan", "cycle"}

\* the readings of the signal "cycle", in turn
Cycle == <<100, 200, 300>>

\* the 10-bit reading of a conversion of channel c, the i-th of the cycle
Reading(s, c, i) ==
    CASE s = "max" -> 1023
      [] s = "zero" -> 0
      [] s = "chan" -> c
      [] OTHER -> Cycle[i + 1]

\* The conversion in flight ends: ADC is loaded and ADSC reads 0 again.  A
\* converter that is not responsive never ends a conversion.
HwComplete ==
    /\ conv.responsive
    /\ Bit(ADCSRA, ADSC) = 1
    /\ ADC' = Reading(signal, conv.chan, conv.idx)
    /\ ADCSRA' = And8(ADCSRA, Not8(Pow2(ADSC)))
    /\ conv' = [conv EXCEPT !.idx = (@ + 1) % Len(Cycle), !.res = conv.chan]
    /\ UNCHANGED <<ADMUX, signal, cpc, serial, lock, th, gh>>

\* the history of the other threads when thread t stores to a register;
\* m is the value stored to ADMUX, or -1 for a store to ADCSRA
GhStore(t, m) ==
    [u \in Threads |->
        IF u # t /\ th[u].pc \in InReadOnce
        THEN [gh[u] EXCEPT
                !.disturbed = TRUE,
                !.overwritten = @ \/ ( /\ m # -1
                                       /\ th[u].pc \in AfterSelect
                                       /\ And8(m, 7) # th[u].ch )]
        ELSE gh[u]]

\* ------------------------------------------------------------- read_once
\* lines 73-76: the call, with result = 0
EnterReadOnce(r, c) == [r EXCEPT !.pc = "r79", !.ch = c, !.ro_result = 0]

GhEnter(g, c) ==
    [g EXCEPT !.roArg = c, !.roMux0 = ADMUX, !.gotChan = -1, !.startChan = -1,
              !.setWhileBusy = FALSE, !.disturbed = FALSE, !.overwritten = FALSE,
              !.ncall = @ + 1]

\* a thread back outside every call, with the value the call returned
Returned(r, v) == [T0 EXCEPT !.calls = r.calls, !.ret = v]

\* a top-level call of read_once(c)
CallReadOnce(t, c) ==
    /\ cpc = "ready"
    /\ th[t].pc = "idle"
    /\ th[t].calls < MaxCalls
    /\ th' = [th EXCEPT ![t] = EnterReadOnce(
                  [T0 EXCEPT !.calls = th[t].calls + 1, !.op = "once"], c)]
    /\ gh' = [gh EXCEPT ![t] = GhEnter(
                  [G0 EXCEPT !.argChannel = c, !.mux0 = ADMUX, !.csra0 = ADCSRA,
                             !.idx0 = conv.idx], c)]
    /\ UNCHANGED <<ADCSRA, ADMUX, ADC, conv, signal, cpc, serial, lock>>

\* the top-level call of read_once that has just returned, made once more
\* with the same argument; the value it returned and the registers it left
\* are kept as history
CallReadOnceAgain(t) ==
    /\ cpc = "ready"
    /\ th[t].pc = "idle"
    /\ gh[t].fin = "once"
    /\ th[t].calls < MaxCalls
    /\ th' = [th EXCEPT ![t] = EnterReadOnce(
                  [T0 EXCEPT !.calls = th[t].calls + 1, !.op = "once"],
                  gh[t].argChannel)]
    /\ gh' = [gh EXCEPT ![t] = GhEnter(
                  [G0 EXCEPT !.argChannel = gh[t].argChannel, !.mux0 = ADMUX,
                             !.csra0 = ADCSRA, !.idx0 = conv.idx, !.again = TRUE,
                             !.prev = [ret |-> th[t].ret, csra |-> ADCSRA,
                                       mux |-> ADMUX, adc |-> ADC]],
                  gh[t].argChannel)]
    /\ UNCHANGED <<ADCSRA, ADMUX, ADC, conv, signal, cpc, serial, lock>>

\* line 79
ReadOnceMask(t) ==
    /\ th[t].pc = "r79"
    /\ th' = [th EXCEPT ![t].ch = MaskChannel(@), ![t].pc = "r82"]
    /\ UNCHANGED <<ADCSRA, ADMUX, ADC, conv, signal, cpc, serial, lock, gh>>

\* line 82, the load
ReadOnceClearLoad(t) ==
    /\ th[t].pc = "r82"
    /\ th' = [th EXCEPT ![t].tmp = ADMUX, ![t].pc = "r82w"]
    /\ UNCHANGED <<ADCSRA, ADMUX, ADC, conv, signal, cpc, serial, lock, gh>>

\* line 82, the store
ReadOnceClearStore(t) ==
    /\ th[t].pc = "r82w"
    /\ ADMUX' = ClearMux(th[t].tmp)
    /\ th' = [th EXCEPT ![t].tmp = 0, ![t].pc = "r83"]
    /\ gh' = GhStore(t, ADMUX')
    /\ UNCHANGED <<ADCSRA, ADC, conv, signal, cpc, serial, lock>>

\* line 83, the load
ReadOnceSetLoad(t) ==
    /\ th[t].pc = "r83"
    /\ th' = [th EXCEPT ![t].tmp = ADMUX, ![t].pc = "r83w"]
    /\ UNCHANGED <<ADCSRA, ADMUX, ADC, conv, signal, cpc, serial, lock, gh>>

\* line 83, the store
ReadOnceSetStore(t) ==
    /\ th[t].pc = "r83w"
    /\ ADMUX' = SetMux(th[t].tmp, th[t].ch)
    /\ th' = [th EXCEPT ![t].tmp = 0, ![t].pc = "r86"]
    /\ gh' = GhStore(t, ADMUX')
    /\ UNCHANGED <<ADCSRA, ADC, conv, signal, cpc, serial, lock>>

\* line 86, the load
ReadOnceStartLoad(t) ==
    /\ th[t].pc = "r86"
    /\ th' = [th EXCEPT ![t].tmp = ADCSRA, ![t].pc = "r86w"]
    /\ UNCHANGED <<ADCSRA, ADMUX, ADC, conv, signal, cpc, serial, lock, gh>>

\* line 86, the store: a conversion starts when ADSC goes from 0 to 1, of the
\* channel ADMUX selects at that moment
ReadOnceStartStore(t) ==
    /\ th[t].pc = "r86w"
    /\ LET fresh == Bit(ADCSRA, ADSC) = 0 /\ Bit(StartConversion(th[t].tmp), ADSC) = 1
       IN  /\ conv' = IF fresh THEN [conv EXCEPT !.chan = And8(ADMUX, 7)] ELSE conv
           /\ gh' = [GhStore(t, -1) EXCEPT
                        ![t].setWhileBusy = (Bit(ADCSRA, ADSC) = 1),
                        ![t].startChan = IF fresh THEN And8(ADMUX, 7) ELSE -1,
                        ![t].nconv = IF fresh
                                     THEN [@ EXCEPT ![And8(ADMUX, 7)] = @ + 1]
                                     ELSE @]
    /\ ADCSRA' = StartConversion(th[t].tmp)
    /\ th' = [th EXCEPT ![t].tmp = 0, ![t].pc = "r87"]
    /\ UNCHANGED <<ADMUX, ADC, signal, cpc, serial, lock>>

\* line 87: one test of the loop's condition
ReadOncePoll(t) ==
    /\ th[t].pc = "r87"
    /\ th' = IF Converting(ADCSRA) THEN th ELSE [th EXCEPT ![t].pc = "r90"]
    /\ UNCHANGED <<ADCSRA, ADMUX, ADC, conv, signal, cpc, serial, lock, gh>>

\* line 90
ReadOnceResult(t) ==
    /\ th[t].pc = "r90"
    /\ th' = [th EXCEPT ![t].ro_result = ADC, ![t].pc = "r92"]
    /\ gh' = [gh EXCEPT ![t].gotChan = conv.res]
    /\ UNCHANGED <<ADCSRA, ADMUX, ADC, conv, signal, cpc, serial, lock>>

\* line 92: back to the caller, which is the thread's top level, line 123 of
\* read_oversampled or one of lines 146-153 of operator <<
ReadOnceReturn(t) ==
    /\ th[t].pc = "r92"
    /\ th' = [th EXCEPT ![t] =
                CASE th[t].op = "once" -> Returned(th[t], th[t].ro_result)
                  [] th[t].op = "over" -> [th[t] EXCEPT !.pc = "o123", !.ch = 0]
                  [] OTHER ->
                       [th[t] EXCEPT !.pc = "d144", !.ch = 0, !.ro_result = 0,
                                     !.opval = [@ EXCEPT ![th[t].cur] = th[t].ro_result],
                                     !.evald = @ \cup {th[t].cur}]]
    /\ gh' = [gh EXCEPT ![t].fin = IF th[t].op = "once" THEN "once" ELSE @]
    /\ UNCHANGED <<ADCSRA, ADMUX, ADC, conv, signal, cpc, serial, lock>>

ReadOnceStep(t) ==
    \/ ReadOnceMask(t)
    \/ ReadOnceClearLoad(t)
    \/ ReadOnceClearStore(t)
    \/ ReadOnceSetLoad(t)
    \/ ReadOnceSetStore(t)
    \/ ReadOnceStartLoad(t)
    \/ ReadOnceStartStore(t)
    \/ ReadOncePoll(t)
    \/ ReadOnceResult(t)
    \/ ReadOnceReturn(t)

\* ------------------------------------------------------ read_oversampled
\* what a division by zero may leave in the result: the quotient of the AVR
\* library's division routine, or anything else (here 0)
DivZeroResults == {0, 65535}

\* lines 106-110: a top-level call of read_oversampled(c, s), with result = 0
\* and temp_samples = 0
CallOversampled(t, c, s) ==
    /\ cpc = "ready"
    /\ th[t].pc = "idle"
    /\ th[t].calls < MaxCalls
    /\ th' = [th EXCEPT ![t] =
                [T0 EXCEPT !.calls = th[t].calls + 1, !.op = "over", !.pc = "o114",
                           !.channel = c, !.samples = s]]
    /\ gh' = [gh EXCEPT ![t] =
                [G0 EXCEPT !.argChannel = c, !.argSamples = s,
                           !.mux0 = ADMUX, !.csra0 = ADCSRA, !.idx0 = conv.idx]]
    /\ UNCHANGED <<ADCSRA, ADMUX, ADC, conv, signal, cpc, serial, lock>>

\* lines 114-117
OverClamp(t) ==
    /\ th[t].pc = "o114"
    /\ th' = [th EXCEPT ![t].samples = ClampSamples(@), ![t].pc = "o118"]
    /\ UNCHANGED <<ADCSRA, ADMUX, ADC, conv, signal, cpc, serial, lock, gh>>

\* line 118
OverSave(t) ==
    /\ th[t].pc = "o118"
    /\ th' = [th EXCEPT ![t].temp_samples = th[t].samples, ![t].pc = "o121"]
    /\ UNCHANGED <<ADCSRA, ADMUX, ADC, conv, signal, cpc, serial, lock, gh>>

\* line 121: the loop's test, and line 123's call of read_once(channel)
OverTest(t) ==
    /\ th[t].pc = "o121"
    /\ IF MoreSamples(th[t].samples)
       THEN /\ th' = [th EXCEPT ![t] = EnterReadOnce(th[t], th[t].channel)]
            /\ gh' = [gh EXCEPT ![t] = GhEnter(gh[t], th[t].channel)]
       ELSE /\ th' = [th EXCEPT ![t].pc = "o127"]
            /\ gh' = gh
    /\ UNCHANGED <<ADCSRA, ADMUX, ADC, conv, signal, cpc, serial, lock>>

\* line 123: result += the value read_once returned; then line 121's samples--
OverAccumulate(t) ==
    /\ th[t].pc = "o123"
    /\ th' = [th EXCEPT ![t].os_result = Accumulate(@, th[t].ro_result),
                        ![t].ro_result = 0,
                        ![t].samples = (@ + 255) % 256,
                        ![t].pc = "o121"]
    /\ gh' = [gh EXCEPT ![t].sum = @ + th[t].ro_result, ![t].last = th[t].ro_result]
    /\ UNCHANGED <<ADCSRA, ADMUX, ADC, conv, signal, cpc, serial, lock>>

\* line 127.  With temp_samples = 0 the division is undefined: the call
\* returns some value, or the program stops.
OverReturn(t) ==
    /\ th[t].pc = "o127"
    /\ IF th[t].temp_samples # 0
       THEN /\ th' = [th EXCEPT ![t] =
                        Returned(th[t], Average(th[t].os_result, th[t].temp_samples))]
            /\ gh' = [gh EXCEPT ![t].fin = "over"]
       ELSE \/ /\ \E v \in DivZeroResults : th' = [th EXCEPT ![t] = Returned(th[t], v)]
               /\ gh' = [gh EXCEPT ![t].fin = "over", ![t].divZero = TRUE]
            \/ /\ th' = [th EXCEPT ![t].pc = "trap"]
               /\ gh' = [gh EXCEPT ![t].divZero = TRUE]
    /\ UNCHANGED <<ADCSRA, ADMUX, ADC, conv, signal, cpc, serial, lock>>

OverStep(t) ==
    \/ OverClamp(t)
    \/ OverSave(t)
    \/ OverTest(t)
    \/ OverAccumulate(t)
    \/ OverReturn(t)

\* ------------------------------------------------------------ operator <<
\* the text written before each operand of lines 144-153
Labels ==
    <<"ADCSRA: ", "ADMUX: ", "ADC0 = ", "ADC1 = ", "ADC2 = ", "ADC3 = ",
      "ADC4 = ", "ADC5 = ", "ADC6 = ", "ADC7 = ">>

\* (the channels shifted by one)
DumpChannel_Shifted(k) == k - 1

\* lines 146-153: the channel operand k of the chain reads, for k in 2..9
DumpChannel(k) == k - 2

\* The operands of a << chain are evaluated in an order the language does
\* not fix (before C++17).  The orders followed: left to right, right to
\* left, the calls before the registers, and one that alternates.
DumpOrders ==
    { <<0, 1, 2, 3, 4, 5, 6, 7, 8, 9>>,
      <<9, 8, 7, 6, 5, 4, 3, 2, 1, 0>>,
      <<2, 3, 4, 5, 6, 7, 8, 9, 1, 0>>,
      <<1, 9, 2, 8, 0, 3, 7, 4, 6, 5>> }

\* the operand thread t evaluates next
NextOperand(t) == th[t].order[Cardinality(th[t].evald) + 1]

\* line 141: a top-level call of operator <<
CallDump(t) ==
    /\ cpc = "ready"
    /\ th[t].pc = "idle"
    /\ th[t].calls < MaxCalls
    /\ \E o \in DumpOrders :
         th' = [th EXCEPT ![t] =
                  [T0 EXCEPT !.calls = th[t].calls + 1, !.op = "dump", !.pc = "d144",
                             !.order = o]]
    /\ gh' = [gh EXCEPT ![t] =
                [G0 EXCEPT !.mux0 = ADMUX, !.csra0 = ADCSRA, !.idx0 = conv.idx,
                           !.serial0 = Len(serial)]]
    /\ UNCHANGED <<ADCSRA, ADMUX, ADC, conv, signal, cpc, serial, lock>>

\* lines 144-145: the operand ADCSRA or ADMUX is read
DumpReadRegister(t, k) ==
    /\ th[t].pc = "d144"
    /\ Cardinality(th[t].evald) < 10
    /\ k \in {0, 1}
    /\ k = NextOperand(t)
    /\ th' = [th EXCEPT ![t].opval = [@ EXCEPT ![k] = IF k = 0 THEN ADCSRA ELSE ADMUX],
                        ![t].evald = @ \cup {k}]
    /\ UNCHANGED <<ADCSRA, ADMUX, ADC, conv, signal, cpc, serial, lock, gh>>

\* lines 146-153: the operand a2d.read_once(k - 2) is called
DumpCallReadOnce(t, k) ==
    /\ th[t].pc = "d144"
    /\ Cardinality(th[t].evald) < 10
    /\ k \in 2..9
    /\ k = NextOperand(t)
    /\ th' = [th EXCEPT ![t] = EnterReadOnce([th[t] EXCEPT !.cur = k], DumpChannel(k))]
    /\ gh' = [gh EXCEPT ![t] = GhEnter(gh[t], DumpChannel(k))]
    /\ UNCHANGED <<ADCSRA, ADMUX, ADC, conv, signal, cpc, serial, lock>>

\* the next << of the chain writes its label and its operand, once the
\* operand is evaluated
DumpWrite(t) ==
    /\ th[t].pc = "d144"
    /\ th[t].emitted < 10
    /\ th[t].emitted \in th[t].evald
    /\ serial' = Append(serial, <<Labels[th[t].emitted + 1], th[t].opval[th[t].emitted]>>)
    /\ th' = [th EXCEPT ![t].emitted = @ + 1]
    /\ UNCHANGED <<ADCSRA, ADMUX, ADC, conv, signal, cpc, lock, gh>>

\* line 155
DumpReturn(t) ==
    /\ th[t].pc = "d144"
    /\ th[t].emitted = 10
    /\ th' = [th EXCEPT ![t] = Returned(th[t], 0)]
    /\ gh' = [gh EXCEPT ![t].fin = "dump"]
    /\ UNCHANGED <<ADCSRA, ADMUX, ADC, conv, signal, cpc, serial, lock>>

DumpStep(t) ==
    \/ \E k \in Operands : DumpReadRegister(t, k)
    \/ \E k \in Operands : DumpCallReadOnce(t, k)
    \/ DumpWrite(t)
    \/ DumpReturn(t)

\* ---------------------------------------------------------- the constructor
\* the line the constructor's DBG writes
CtorLine == <<"A/D constructor OK", 0>>

\* line 48
CtorEnable ==
    /\ cpc = "c48"
    /\ ADCSRA' = EnableADC(ADCSRA)
    /\ cpc' = "c51"
    /\ UNCHANGED <<ADMUX, ADC, conv, signal, serial, lock, th, gh>>

\* line 51
CtorPrescaler0 ==
    /\ cpc = "c51"
    /\ ADCSRA' = SetPrescaler0(ADCSRA)
    /\ cpc' = "c52"
    /\ UNCHANGED <<ADMUX, ADC, conv, signal, serial, lock, th, gh>>

\* line 52
CtorPrescaler1 ==
    /\ cpc = "c52"
    /\ ADCSRA' = ClearPrescaler1(ADCSRA)
    /\ cpc' = "c53"
    /\ UNCHANGED <<ADMUX, ADC, conv, signal, serial, lock, th, gh>>

\* line 53
CtorPrescaler2 ==
    /\ cpc = "c53"
    /\ ADCSRA' = SetPrescaler2(ADCSRA)
    /\ cpc' = "c56"
    /\ UNCHANGED <<ADMUX, ADC, conv, signal, serial, lock, th, gh>>

\* line 56
CtorRef0 ==
    /\ cpc = "c56"
    /\ ADMUX' = SetRef0(ADMUX)
    /\ cpc' = "c57"
    /\ UNCHANGED <<ADCSRA, ADC, conv, signal, serial, lock, th, gh>>

\* line 57
CtorRef1 ==
    /\ cpc = "c57"
    /\ ADMUX' = ClearRef1(ADMUX)
    /\ cpc' = "c60"
    /\ UNCHANGED <<ADCSRA, ADC, conv, signal, serial, lock, th, gh>>

\* lines 45 and 60: the message goes to the port the constructor was given
CtorDebug ==
    /\ cpc = "c60"
    /\ serial' = Append(serial, CtorLine)
    /\ cpc' = "ready"
    /\ UNCHANGED <<ADCSRA, ADMUX, ADC, conv, signal, lock, th, gh>>

CtorStep ==
    \/ CtorEnable
    \/ CtorPrescaler0
    \/ CtorPrescaler1
    \/ CtorPrescaler2
    \/ CtorRef0
    \/ CtorRef1
    \/ CtorDebug

\* ------------------------------------------------------ the caller's lock
Acquire(t) ==
    /\ lock = 0
    /\ th[t].pc = "idle"
    /\ th[t].calls < MaxCalls
    /\ lock' = t
    /\ UNCHANGED <<ADCSRA, ADMUX, ADC, conv, signal, cpc, serial, th, gh>>

Release(t) ==
    /\ lock = t
    /\ th[t].pc = "idle"
    /\ lock' = 0
    /\ UNCHANGED <<ADCSRA, ADMUX, ADC, conv, signal, cpc, serial, th, gh>>

\* ------------------------------------------------------- initial states
\* the state the constructor leaves, from registers a and m, with no
\* conversion in flight and the input s
ConstructedOn(a, m, s, r) ==
    /\ ADCSRA = CtorADCSRA(a)
    /\ ADMUX = CtorADMUX(m)
    /\ ADC = 0
    /\ conv = [chan |-> 0, idx |-> 0, res |-> -1, responsive |-> r]
    /\ signal = s
    /\ cpc = "ready"
    /\ serial = <<CtorLine>>
    /\ lock = 0
    /\ th = [t \in Threads |-> T0]
    /\ gh = [t \in Threads |-> G0]

\* the same on a responsive converter
Constructed(a, m, s) == ConstructedOn(a, m, s, TRUE)

\* ------------------------------------ read_once, called by one thread
InitRead ==
    \E m \in Byte : Constructed(24, m, "chan")

NextRead ==
    \/ HwComplete
    \/ \E c \in Byte : CallReadOnce(1, c)
    \/ ReadOnceStep(1)

SpecRead == InitRead /\ [][NextRead]_vars

\* ------------------------------ read_oversampled, called by one thread
\* the sample counts asked for: all that are not clamped, and some that are
SampleArgs == (0..66) \cup {127, 128, 255}

\* a channel in range and one out of range
OverChannels == {2, 13}

InitOver ==
    \E s \in {"max", "cycle"} : Constructed(0, 0, s)

NextOver ==
    \/ HwComplete
    \/ \E c \in OverChannels, s \in SampleArgs : CallOversampled(1, c, s)
    \/ ReadOnceStep(1)
    \/ OverStep(1)

SpecOver == InitOver /\ [][NextOver]_vars

\* ------------------------------------------------------- construction
\* Before construction: any register values, nothing written, the registers'
\* values kept as thread 1's history.  The constructor's register writes are
\* followed on their own: the peripheral does not act during them.
Unconstructed(a, m, s) ==
    /\ ADCSRA = a
    /\ ADMUX = m
    /\ ADC = 0
    /\ conv = [chan |-> 0, idx |-> 0, res |-> -1, responsive |-> TRUE]
    /\ signal = s
    /\ cpc = "c48"
    /\ serial = << >>
    /\ lock = 0
    /\ th = [t \in Threads |-> T0]
    /\ gh = [t \in Threads |-> IF t = 1 THEN [G0 EXCEPT !.csra0 = a, !.mux0 = m] ELSE G0]

InitCtor == \E a \in Byte, m \in Byte : Unconstructed(a, m, "chan")

NextCtor == CtorStep

SpecCtor == InitCtor /\ [][NextCtor]_vars

\* --------------------------- the diagnostic dump, called by one thread
InitDump == \E a \in {0, 56}, m \in {0, 45} : Constructed(a, m, "chan")

NextDump ==
    \/ HwComplete
    \/ CallDump(1)
    \/ ReadOnceStep(1)
    \/ DumpStep(1)

SpecDump == InitDump /\ [][NextDump]_vars

\* --------------------- read_once, called by several threads at any time
RaceChannels == {1, 14}

\* the two threads that call
Racers == {1, 2}

InitRace == Constructed(0, 0, "chan")

NextRace ==
    \/ HwComplete
    \/ \E t \in Racers :
        \/ \E c \in RaceChannels : CallReadOnce(t, c)
        \/ ReadOnceStep(t)

SpecRace == InitRace /\ [][NextRace]_vars

\* -- read_once called by several threads, each while holding the one lock
LockChannels == {1, 6, 14}

InitLock == Constructed(0, 0, "chan")

NextLock ==
    \/ HwComplete
    \/ \E t \in Threads :
        \/ Acquire(t)
        \/ Release(t)
        \/ lock = t /\ \E c \in LockChannels : CallReadOnce(t, c)
        \/ ReadOnceStep(t)

SpecLock == InitLock /\ [][NextLock]_vars

\* ------------ the whole program: construction, then calls by one thread
\* the sample counts asked for: none, few, and one that is clamped
FewSamples == {0, 1, 2, 3, 64}

\* The driver is constructed with no conversion in flight: ADSC is 0 in the
\* registers it finds.
Init == \E a \in {0, 26}, m \in {0, 173}, s \in Signals : Unconstructed(a, m, s)

Next ==
    \/ CtorStep
    \/ HwComplete
    \/ \E c \in OverChannels : CallReadOnce(1, c)
    \/ \E c \in OverChannels, n \in FewSamples : CallOversampled(1, c, n)
    \/ CallDump(1)
    \/ ReadOnceStep(1)
    \/ OverStep(1)
    \/ DumpStep(1)

Spec == Init /\ [][Next]_vars

\* ------------------ read_once called twice in a row by one thread
TwiceChannels == {0, 2, 13}

InitTwice == \E m \in {0, 45}, s \in Signals : Constructed(24, m, s)

NextTwice ==
    \/ HwComplete
    \/ \E c \in TwiceChannels : CallReadOnce(1, c)
    \/ CallReadOnceAgain(1)
    \/ ReadOnceStep(1)

SpecTwice == InitTwice /\ [][NextTwice]_vars

\* ------------------- every call, on a converter that ends its conversions
\* and a processor that keeps executing the thread
LiveSamples == {1, 3, 64}

InitLive == Constructed(0, 0, "chan")

NextLive ==
    \/ HwComplete
    \/ CallReadOnce(1, 2)
    \/ \E n \in LiveSamples : CallOversampled(1, 2, n)
    \/ CallDump(1)
    \/ ReadOnceStep(1)
    \/ OverStep(1)
    \/ DumpStep(1)

SpecLive ==
    /\ InitLive
    /\ [][NextLive]_vars
    /\ WF_vars(HwComplete)
    /\ WF_vars(ReadOnceStep(1) \/ OverStep(1) \/ DumpStep(1))

\* ------------- read_once on a converter that may never end a conversion
InitHang == \E m \in {0, 45}, r \in BOOLEAN : ConstructedOn(24, m, "chan", r)

NextHang ==
    \/ HwComplete
    \/ \E c \in TwiceChannels : CallReadOnce(1, c)
    \/ ReadOnceStep(1)

SpecHang == InitHang /\ [][NextHang]_vars

\* ================================================================ claims
\* the sum of the n readings the peripheral delivers for channel c from
\* position i of the signal s on
RECURSIVE SumReadings(_, _, _, _)
SumReadings(s, c, i, n) ==
    IF n = 0 THEN 0
    ELSE Reading(s, c, i) + SumReadings(s, c, (i + 1) % Len(Cycle), n - 1)

\* thread t is back from a top-level call of kind k
Back(t, k) == th[t].pc = "idle" /\ gh[t].fin = k

\* C1: when read_once(c) has returned, the low three bits of ADMUX are
\* c mod 8 and its upper five bits are those it had when the call began.
C1_ChannelMasked ==
    \A t \in Threads :
        Back(t, "once") =>
            /\ ADMUX % 8 = gh[t].roArg % 8
            /\ ADMUX \div 8 = gh[t].roMux0 \div 8

\* C1's case: a channel above 7, a register whose low bits had to change and
\* whose upper bits are not all zero
C1_Witness ==
    /\ Back(1, "once")
    /\ gh[1].roArg > 7
    /\ gh[1].roMux0 % 8 # gh[1].roArg % 8
    /\ gh[1].roMux0 \div 8 > 8

\* C2: for samples in 1..60, read_oversampled returns the floor of the sum of
\* the readings of its samples calls of read_once, divided by samples.
C2_FloorAverage ==
    \A t \in Threads :
        (Back(t, "over") /\ gh[t].argSamples \in 1..60) =>
            /\ gh[t].ncall = gh[t].argSamples
            /\ gh[t].sum = SumReadings(signal, gh[t].argChannel % 8, gh[t].idx0,
                                       gh[t].argSamples)
            /\ th[t].ret = gh[t].sum \div gh[t].argSamples

\* C2's case: an average that is not exact
C2_Witness ==
    /\ Back(1, "over")
    /\ gh[1].argSamples \in 2..60
    /\ gh[1].sum % gh[1].argSamples # 0
    /\ th[1].ret > 0

\* C3: for samples in 64..255 the call does what the call with samples = 60
\* does from the same state on the same readings: 60 conversions, the same
\* registers left, the same value returned.  The outcome below is a function
\* of the state at the call and of the channel only, and the call with
\* samples = 60 is held to it as well.
C3_ClampedLikeSixty ==
    \A t \in Threads :
        (Back(t, "over") /\ gh[t].argSamples \in ({60} \cup (64..255))) =>
            /\ gh[t].ncall = 60
            /\ gh[t].sum = SumReadings(signal, gh[t].argChannel % 8, gh[t].idx0, 60)
            /\ th[t].ret = gh[t].sum \div 60
            /\ ADMUX = (gh[t].mux0 \div 8) * 8 + (gh[t].argChannel % 8)
            /\ ADCSRA = gh[t].csra0
            /\ ADC = gh[t].last
            /\ conv.idx = (gh[t].idx0 + 60) % Len(Cycle)

\* C3's case: a clamped call that has returned a reading
C3_Witness ==
    /\ Back(1, "over")
    /\ gh[1].argSamples >= 64
    /\ signal = "cycle"
    /\ th[1].ret = 200

\* C4: read_oversampled(channel, 0) divides by no zero divisor: line 127 is
\* reached with temp_samples # 0 only.
C4_NoDivisionByZero ==
    \A t \in Threads : th[t].pc = "o127" => th[t].temp_samples # 0

\* C5: the 16-bit accumulator never wraps: it always holds the exact sum of
\* the readings so far, which is at most 65535.
C5_NoAccumulatorOverflow ==
    \A t \in Threads :
        /\ gh[t].sum <= 65535
        /\ th[t].op = "over" => th[t].os_result = gh[t].sum

\* C5's case: the largest sum, 63 readings of 1023 (63 is not clamped)
C5_Witness ==
    /\ Back(1, "over")
    /\ gh[1].argSamples = 63
    /\ gh[1].sum = 63 * 1023

\* the start-conversion flag reads 0
FlagClear == (ADCSRA \div 64) % 2 = 0

\* C6: after construction the enable bit (bit 7 of ADCSRA) is 1, the
\* prescaler bits (bits 2, 1, 0) are 1, 0, 1, the reference bits (bits 7, 6
\* of ADMUX) are 0, 1, and every other bit of both registers (bits 6..3 of
\* ADCSRA, the start-conversion flag among them, and bits 5..0 of ADMUX, the
\* channel among them) is what it was before.
C6_ConstructorBits ==
    cpc = "ready" =>
        /\ ADCSRA = 128 + ((gh[1].csra0 % 128) \div 8) * 8 + 5
        /\ ADMUX = 64 + (gh[1].mux0 % 64)

\* C6's case: registers in which every bit the constructor sets was 0, every
\* bit it clears was 1, and the start-conversion flag and a channel were set
C6_Witness ==
    /\ cpc = "ready"
    /\ gh[1].csra0 = 122
    /\ gh[1].mux0 = 165

\* C7: with the calls made one after the other, read_once never sets the
\* start-conversion flag while it is set, the flag is clear whenever read_once
\* returns, and so at most one conversion is in flight.
C7_OneConversionInFlight ==
    \A t \in Threads :
        /\ ~gh[t].setWhileBusy
        /\ th[t].pc \in {"r86", "r86w", "r92"} => FlagClear

\* C7's case: read_once returns from a conversion that followed an earlier one
C7_Witness ==
    /\ th[1].pc = "r92"
    /\ th[1].calls = 2
    /\ gh[1].ncall >= 2
    /\ gh[1].startChan >= 0
    /\ conv.res >= 0

\* C8: without serialization a read_once may return the conversion of a
\* channel it did not ask for (C8_Witness); it does so only when another
\* invocation stored to the registers during it, or had a conversion in
\* flight when it set the start-conversion flag.
C8_WrongChannelOnlyByInterference ==
    \A t \in Threads :
        (th[t].pc = "r92" /\ gh[t].gotChan # gh[t].roArg % 8) =>
            (gh[t].disturbed \/ gh[t].setWhileBusy)

\* C8's case: the other invocation wrote another channel after thread 1's
\* line 83 and before its line 90; thread 1 started a conversion of that
\* channel and has returned its result
C8_Witness ==
    /\ Back(1, "once")
    /\ gh[1].overwritten
    /\ gh[1].startChan # gh[1].roArg % 8
    /\ gh[1].gotChan = gh[1].startChan
    /\ th[1].ret = gh[1].startChan

\* C9: with every call made while holding the one lock, each read_once(c)
\* returns the result of a conversion it started while the channel-select
\* field held c mod 8.
C9_LockedReadsOwnChannel ==
    \A t \in Threads :
        th[t].pc = "r92" =>
            /\ gh[t].startChan = gh[t].roArg % 8
            /\ gh[t].gotChan = gh[t].roArg % 8
            /\ th[t].ro_result = Reading(signal, gh[t].roArg % 8, 0)

\* C9's case: two threads have each read a channel of their own
C9_Witness ==
    /\ Back(1, "once")
    /\ Back(2, "once")
    /\ gh[1].roArg % 8 # gh[2].roArg % 8
    /\ th[1].ret = gh[1].roArg % 8
    /\ th[2].ret = gh[2].roArg % 8

\* C10: on a peripheral that reads k on channel k, the dump writes the value
\* of ADCSRA, then a value of ADMUX, then the lines ADC0..ADC7, the line ADCk
\* with k, the result of read_once(k); it makes eight conversions, one of each
\* channel.
C10_DumpLines ==
    \A t \in Threads :
        (Back(t, "dump") /\ signal = "chan") =>
            /\ Len(serial) = gh[t].serial0 + 10
            /\ serial[gh[t].serial0 + 1] = <<"ADCSRA: ", gh[t].csra0>>
            /\ serial[gh[t].serial0 + 2][1] = "ADMUX: "
            /\ serial[gh[t].serial0 + 2][2] \div 8 = gh[t].mux0 \div 8
            /\ \A k \in 0..7 : serial[gh[t].serial0 + 3 + k] = <<Labels[k + 3], k>>
            /\ gh[t].ncall = 8
            /\ \A k \in 0..7 : gh[t].nconv[k] = 1

\* C10's case: a dump has returned whose operands were not evaluated from
\* left to right (the ADMUX it shows is not the one it found)
C10_Witness ==
    /\ Back(1, "dump")
    /\ serial[Len(serial)] = <<"ADC7 = ", 7>>
    /\ gh[1].mux0 % 8 = 5
    /\ serial[gh[1].serial0 + 2][2] % 8 # 5

\* C11: on an input that depends on the channel only (every signal but
\* "cycle"), the second of two consecutive read_once(c) returns what the
\* first returned and leaves the registers as the first left them.
C11_SecondReadSame ==
    \A t \in Threads :
        (Back(t, "once") /\ gh[t].again /\ signal # "cycle") =>
            /\ th[t].ret = gh[t].prev.ret
            /\ ADCSRA = gh[t].prev.csra
            /\ ADMUX = gh[t].prev.mux
            /\ ADC = gh[t].prev.adc

\* C11's case: channel 13 (5 after the mask) read twice, from a register
\* that selected another channel
C11_Witness ==
    /\ Back(1, "once")
    /\ gh[1].again
    /\ signal = "chan"
    /\ gh[1].argChannel = 13
    /\ th[1].ret = 5
    /\ gh[1].prev.ret = 5

\* C12: for samples in 1..255 and readings in 0..1023, read_oversampled
\* returns a value in 0..1023.
C12_AverageInRange ==
    \A t \in Threads :
        (Back(t, "over") /\ gh[t].argSamples \in 1..255) => th[t].ret \in 0..1023

\* C12's case: the largest average, from a count that is clamped
C12_Witness ==
    /\ Back(1, "over")
    /\ gh[1].argSamples = 255
    /\ signal = "max"
    /\ th[1].ret = 1023

\* the number of calls of read_once that read_oversampled(channel, s) makes
OverCalls(s) == IF s \in 0..63 THEN s ELSE 60

\* C14: read_oversampled(channel, samples) calls read_once samples times for
\* samples in 0..63 and 60 times for samples in 64..255, each time with its
\* own channel argument, and its loop is left after that many iterations.
C14_NumberOfReads ==
    \A t \in Threads :
        th[t].op = "over" =>
            /\ gh[t].ncall <= OverCalls(gh[t].argSamples)
            /\ th[t].pc \in InReadOnce => gh[t].roArg = gh[t].argChannel
            /\ th[t].pc = "o127" =>
                 /\ gh[t].ncall = OverCalls(gh[t].argSamples)
                 /\ th[t].samples = 0

\* C14's case: the loop is left after 63 calls, the most there can be
C14_Witness ==
    /\ th[1].op = "over"
    /\ th[1].pc = "o127"
    /\ gh[1].argSamples = 63
    /\ gh[1].ncall = 63

\* C13: within a call of read_once by a thread that has the converter to
\* itself, the masked channel is in the channel-select field before the
\* conversion is started, the conversion is started before the flag is
\* polled, the flag has been seen clear before the result register is read,
\* and the conversion was started on the requested channel, not on the
\* cleared field.
C13_OrderOfRegisterOperations ==
    \A t \in Threads :
        th[t].pc \in InReadOnce =>
            /\ th[t].pc \in {"r86", "r86w"} => ADMUX % 8 = gh[t].roArg % 8
            /\ th[t].pc \in {"r79", "r82", "r82w", "r83", "r83w", "r86", "r86w"} =>
                 gh[t].startChan = -1
            /\ th[t].pc \in {"r87", "r90", "r92"} =>
                 gh[t].startChan = gh[t].roArg % 8
            /\ th[t].pc \in {"r90", "r92"} => FlagClear
            /\ th[t].pc = "r92" => gh[t].gotChan = gh[t].roArg % 8

\* C13's case: the result has been read in a call whose channel is neither
\* the one the field held before nor the cleared value
C13_Witness ==
    /\ th[1].pc = "r92"
    /\ gh[1].roArg % 8 = 5
    /\ gh[1].roMux0 % 8 = 3
    /\ gh[1].startChan = 5
    /\ gh[1].gotChan = 5

\* C15: once the constructor has run, in every state of every call of
\* read_once, read_oversampled and dump, ADEN is 1, ADPS2..0 are 1, 0, 1 and
\* REFS1..0 are 0, 1.
C15_StaysConfigured ==
    cpc = "ready" =>
        /\ Bit(ADCSRA, ADEN) = 1
        /\ Bit(ADCSRA, ADPS2) = 1
        /\ Bit(ADCSRA, ADPS1) = 0
        /\ Bit(ADCSRA, ADPS0) = 1
        /\ Bit(ADMUX, REFS1) = 0
        /\ Bit(ADMUX, REFS0) = 1

\* C15's case: the second call, a read_oversampled of three samples of
\* channel 2 after a read of channel 13, has returned on a converter whose
\* registers held other bits before construction
C15_Witness ==
    /\ cpc = "ready"
    /\ Back(1, "over")
    /\ th[1].calls = 2
    /\ gh[1].argChannel = 2
    /\ gh[1].argSamples = 3
    /\ gh[1].mux0 = 109
    /\ ADCSRA = 157
    /\ ADMUX = 106

\* C16: on a converter that ends every conversion it is given, and with the
\* thread kept running, every call of read_once, every call of
\* read_oversampled with samples >= 1 and every dump returns.
C16_EveryCallReturns ==
    /\ (th[1].op = "once" /\ th[1].pc # "idle") ~> Back(1, "once")
    /\ (th[1].op = "over" /\ th[1].pc # "idle") ~> Back(1, "over")
    /\ (th[1].op = "dump" /\ th[1].pc # "idle") ~> Back(1, "dump")

\* C16's case: a read_oversampled of 64 samples has returned after an
\* earlier call
C16_Witness ==
    /\ Back(1, "over")
    /\ th[1].calls = 2
    /\ gh[1].argSamples = 64
    /\ gh[1].nconv[2] = 60
    /\ th[1].ret = 2

\* C17: on a converter that never clears the start-conversion flag, read_once
\* does not read the result register and does not return, and every step it
\* takes once it polls the flag leaves it polling, with ADCSRA, ADMUX and ADC
\* as they were.
C17_HangsInPollingLoop ==
    /\ [](~conv.responsive =>
            /\ th[1].pc \notin {"r90", "r92"}
            /\ gh[1].gotChan = -1
            /\ gh[1].fin # "once")
    /\ [][(~conv.responsive /\ th[1].pc = "r87") =>
            /\ th'[1].pc = "r87"
            /\ ADCSRA' = ADCSRA
            /\ ADMUX' = ADMUX
            /\ ADC' = ADC]_vars

\* C17's case: read_once polls a flag it has set and that will not be cleared
C17_Witness ==
    /\ ~conv.responsive
    /\ th[1].pc = "r87"
    /\ gh[1].startChan = 5
    /\ Bit(ADCSRA, ADSC) = 1
    /\ ADC = 0

====
